---- MODULE Spec2Model ----
(***************************************************************************)
(* Multi-agent streaming pipeline of the AUGV YOLO backend                 *)
(* (src/webapp/asgi_app.py, src/webapp/model/yolo_augv.py).                *)
(*                                                                         *)
(* Time is counted in ticks of 0.25 s.  Lengths of the ground projection    *)
(* are counted in millimetres (world units * 1000).                        *)
(***************************************************************************)
EXTENDS Integers, Sequences, FiniteSets, TLC

(***************************************************************************)
(* Bounds of the model.                                                    *)
(***************************************************************************)
MaxFrames == 3
\* the AgentYoloThread objects made in a run
MaxThreads == 2
Horizon == 3

(***************************************************************************)
(* Program constants.                                                      *)
(***************************************************************************)
\* now - self.last_send_time >= 0.5, in ticks of 0.25 s
MinInterval == 2
\* an inbox of two
QueueMaxSizeTwo == 1 + 1

\* queue.Queue(maxsize=1)
QueueMaxSize == 1
\* CAMERA_HEIGHT = 0.6 m, in mm
CAMERA_HEIGHT == 600
\* cam_z = NODE_CENTER + CAMERA_FORWARD = 0.5 + 0.31 m, in mm
CAM_Z == 810
\* cos and sin of CAMERA_ROT_X = 20 degrees, scaled by TrigScale
TrigScale == 1000
COS_ROT == 940
SIN_ROT == 342
IMG_W == 640
IMG_H == 480
\* dy > 0 and dy <= 5
MaxDy == 5
\* now - ts < 10 (AgentFrameStore.get_agents), in ticks of 0.25 s
LivenessWindow == 40
\* HEARTBEAT_INTERVAL = 20 s, in ticks
HEARTBEAT_INTERVAL == 80
\* await asyncio.sleep(10) of monitor_ws, in ticks
MonitorSleep == 40

Agents == {"A1", "A2"}
Conns == {"c1", "c2"}
Monitors == {"m1", "m2"}

\* Python's None.  Tuples stand for Python tuples, so None is a tuple no
\* offset pair can equal.
None == <<>>

\* time.time() at process start: far more than 0.5 s after the epoch.
StartTime == MinInterval + 1
MaxTime == StartTime + Horizon

(***************************************************************************)
(* Geometry projector, in integer arithmetic.                              *)
(***************************************************************************)
Abs(n) == IF n < 0 THEN -n ELSE n

\* floor(a / b) for any b # 0
FloorDiv(a, b) ==
  LET n == IF b < 0 THEN -a ELSE a
      d == Abs(b)
      q == Abs(n) \div d
  IN IF n >= 0 THEN q
     ELSE IF Abs(n) % d = 0 THEN -q ELSE -q - 1

\* int(round(v / 1000)): Python rounds halves to the even neighbour
RoundMilli(v) ==
  LET f == FloorDiv(v, 1000)
      r == v - f * 1000
  IN IF r < 500 THEN f
     ELSE IF r > 500 THEN f + 1
     ELSE IF f % 2 = 0 THEN f ELSE f + 1

\* bias by distance: <= 2 -> 0.2, <= 4 -> 0.5, <= 6 -> 0.8, else 1.2
Bias(world_x, world_z) ==
  LET d2 == world_x * world_x + world_z * world_z
  IN IF Abs(world_x) > 6000 \/ Abs(world_z) > 6000 THEN 1200
     ELSE IF d2 <= 2000 * 2000 THEN 200
     ELSE IF d2 <= 4000 * 4000 THEN 500
     ELSE IF d2 <= 6000 * 6000 THEN 800
     ELSE 1200

\* y_rot and z_rot of the ray through (x_img, y_img), both times
\* img_h * TrigScale (tan(FOV/2) = tan(45 deg) = 1)
YRotNum(y_img, img_h) == (img_h - 2 * y_img) * COS_ROT - img_h * SIN_ROT
ZRotNum(y_img, img_h) == (img_h - 2 * y_img) * SIN_ROT + img_h * COS_ROT

image_to_agent_grid_offset(x_img, y_img, img_w, img_h) ==
  LET y_rot == YRotNum(y_img, img_h)
      z_rot == ZRotNum(y_img, img_h)
      \* world_x = x_cam * t, world_z = cam_z + z_rot * t, t = -cam_y / y_rot
      world_x == IF y_rot # 0
                 THEN FloorDiv(-CAMERA_HEIGHT * TrigScale * (2 * x_img - img_w), y_rot)
                 ELSE 0
      world_z == IF y_rot # 0
                 THEN CAM_Z + FloorDiv(-CAMERA_HEIGHT * z_rot, y_rot)
                 ELSE CAM_Z
      bias == Bias(world_x, world_z)
  IN << RoundMilli(world_x), RoundMilli(world_z + bias) >>

(***************************************************************************)
(* Frames.  A message of an agent is its bytes: a picture, named by what   *)
(* the detector finds on it, or bytes that are no picture.  Every message  *)
(* carries the number it was sent with.                                    *)
(***************************************************************************)
Box(label, x, y, h) == [label |-> label, x |-> x, y |-> y, h |-> h]

\* results.boxes of model.predict on a picture of the given kind
Predict(kind) ==
  CASE kind = "empty" -> << >>
    [] kind = "near"  -> << Box("car", 320, 380, 40), Box("person", 320, 380, 40) >>
    [] kind = "far"   -> << Box("person", 320, 170, 20), Box("person", 320, 90, 20) >>
    [] kind = "mixed" -> << Box("person", 600, 210, 20), Box("person", 320, 170, 20) >>
    [] OTHER          -> << >>

\* the road contour cv2.findContours finds on the picture
RoadOutline(kind) ==
  IF kind \in {"near", "mixed"} THEN << <<0, 479>>, <<639, 479>> >> ELSE << >>

PictureKinds == {"empty", "near", "far", "mixed", "bad"}
\* bytes that are no picture, and a message of no bytes at all
Garbage == "garbage"
NoBytes == "nobytes"
Undecodable == {Garbage, NoBytes}

\* the frame that is None
NoneFrame == [id |-> 0, kind |-> "None", shape |-> <<0, 0>>]
\* no frame: cv2.imdecode has raised
DecodeError == [id |-> 0, kind |-> "cv2.error", shape |-> <<0, 0>>]

\* a decoder that makes a picture of any bytes
DecodeAnything(data) ==
  [id |-> data.id, kind |-> data.kind, shape |-> <<IMG_H, IMG_W>>]

\* cv2.imdecode(np.frombuffer(data)): None when the bytes are no picture; it
\* raises on an empty buffer
Decode(data) ==
  IF data.kind = NoBytes THEN DecodeError
  ELSE IF data.kind = Garbage THEN NoneFrame
  ELSE [id |-> data.id, kind |-> data.kind, shape |-> <<IMG_H, IMG_W>>]

(***************************************************************************)
(* The per-frame computation of AgentYoloThread.run.                       *)
(***************************************************************************)
Persons(boxes) == SelectSeq(boxes, LAMBDA b : b.label = "person")

\* one entry of detections: feet = bottom centre of the box
Detection(box, img_w, img_h) ==
  LET feet_x == box.x
      feet_y == box.y + box.h \div 2
  IN [label |-> box.label, bbox |-> <<box.x, box.y, box.h>>,
      feet |-> <<feet_x, feet_y>>,
      offset |-> image_to_agent_grid_offset(feet_x, feet_y, img_w, img_h)]

Detections(frame) ==
  LET ps == Persons(Predict(frame.kind))
  IN [i \in 1..Len(ps) |-> Detection(ps[i], frame.shape[2], frame.shape[1])]

\* blocked_offsets.add((dx, dy) if dy > 0 and dy <= 5 else None)
BlockedEntry(offset) ==
  IF offset[2] > 0 /\ offset[2] <= MaxDy THEN offset ELSE None

BlockedOffsets(frame) ==
  LET ds == Detections(frame)
  IN { BlockedEntry(ds[i].offset) : i \in 1..Len(ds) }

\* the dropped debounce: every non-empty frame notifies
ShouldNotifyEveryFrame(blocked_offsets, now, last_send_time, last_sent_offsets) ==
  blocked_offsets # {}

\* the dropped guard: an empty set notifies too
ShouldNotifyEmpty(blocked_offsets, now, last_send_time, last_sent_offsets) ==
  now - last_send_time >= MinInterval \/ blocked_offsets # last_sent_offsets

\* the dropped interval: only a changed set notifies
ShouldNotifyOnChange(blocked_offsets, now, last_send_time, last_sent_offsets) ==
  /\ blocked_offsets # {}
  /\ blocked_offsets # last_sent_offsets

\* if blocked_offsets and (now - self.last_send_time >= 0.5 or
\*                         blocked_offsets != self.last_sent_offsets)
ShouldNotify(blocked_offsets, now, last_send_time, last_sent_offsets) ==
  /\ blocked_offsets # {}
  /\ \/ now - last_send_time >= MinInterval
     \/ blocked_offsets # last_sent_offsets

\* The records of agent_state.  A key a record lacks holds the default its
\* readers take for it (.get(key, [])).
WaitingRecord ==
  [status |-> "waiting", detections |-> << >>, road_outline |-> << >>,
   blocked_offsets |-> {}, error |-> ""]

ErrorRecord(msg) ==
  [status |-> "error", detections |-> << >>, road_outline |-> << >>,
   blocked_offsets |-> {}, error |-> msg]

ProcessedRecord(detections, road_outline, blocked_offsets) ==
  [status |-> IF blocked_offsets # {} THEN "blocked" ELSE "safe",
   detections |-> detections, road_outline |-> road_outline,
   blocked_offsets |-> blocked_offsets, error |-> ""]

(***************************************************************************)
(* State.                                                                  *)
(***************************************************************************)
VARIABLES
  clock,              \* time.time(), in ticks
  agent_queues,       \* yolo_augv.agent_queues: agent id -> content of its Queue
  agent_state,        \* yolo_augv.agent_state: agent id -> record
  started,            \* per agent id, the AgentYoloThread objects started
  wpc,                \* per agent id, where its thread stands in run()
  w_frame, w_now,     \* run(): frame, now
  w_dets, w_road, w_blocked, \* run(): detections, road_outline, blocked_offsets
  last_send_time, last_sent_offsets,  \* self.last_send_time, self.last_sent_offsets
  calls,              \* per agent id, the last call of send_obstacle_data_to_unity
  unity_recv,         \* per agent id, the last blocked_offsets Unity received
  run_offsets, run_sends, \* the current run of frames of equal blocked_offsets
  processed,          \* per agent id, the last two frames its thread has finished
  pending,            \* per agent id, the oldest and the newest picture handed to
                      \* its inbox since it was last drained
  agent_frames,       \* asgi_app.agent_frames: agent id -> latest bytes
  cpc, c_agent,       \* per agent connection: place in augv_ws, its agent_id
  c_last_sent, c_data, \* augv_ws: last_sent, data
  c_targets, c_results, \* augv_ws: the clients of send_tasks, results
  loop,               \* the coroutine holding the event loop, or "idle"
  delivery,           \* per agent connection, how its last frame fared
  next_id,            \* the number of the next message an agent sends
  monitor_clients,    \* asgi_app.monitor_clients, in iteration order
  mpc, m_alive,       \* per monitor: place in monitor_ws, is the peer there
  m_iter,             \* monitor_ws: the iteration over agent_frames.items()
  m_sent_at,          \* per monitor, when monitor_ws subscribed it or last sent to it
  frames, agent_last_seen, \* AgentFrameStore.frames, AgentFrameStore.agent_last_seen
  listing, fetched,   \* what get_agents and get_frame returned last
  m_stalled,          \* the monitors whose peer has stopped reading
  lock,               \* AgentFrameStore.lock: the task holding it, or "free"
  store_clients,      \* AgentFrameStore.clients
  hpc,                \* per task of the HTTP variant, its place in its handler
  h_data, h_snap,     \* ws_unity_agent: data, the clients still to be sent to
  p_args, p_ret,      \* the last call of image_to_agent_grid_offset and its result
  t_agent, t_pc, t_q, \* HTTP variant, per AgentYoloThread made: agent_id, place in
                      \* run(), content of self.q
  h_queues, h_state,  \* HTTP variant: agent_queues (agent id -> the thread whose
                      \* queue it holds), agent_state (agent id -> status)
  rq,                 \* per request thread / websocket of route.py: its place,
                      \* its agent_id, its q
  h_gone,             \* the clients of the store whose peer is gone
  h_failed            \* the clients of the store a send_bytes to which has raised

workerVars == << wpc, w_frame, w_now, w_dets, w_road, w_blocked,
                 last_send_time, last_sent_offsets >>
notifyVars == << calls, unity_recv, run_offsets, run_sends >>
connVars == << cpc, c_agent, c_last_sent, c_data, c_targets,
               c_results, loop, delivery, next_id >>
monitorVars == << monitor_clients, mpc, m_alive, m_iter, m_sent_at, m_stalled >>
storeVars == << frames, agent_last_seen, listing, fetched >>
httpVars == << lock, store_clients, hpc, h_data, h_snap >>
projVars == << p_args, p_ret >>
ctlVars == << t_agent, t_pc, t_q, h_queues, h_state, rq >>
goneVars == << h_gone, h_failed >>
otherVars == << storeVars, httpVars, projVars, ctlVars, goneVars >>
vars == << clock, agent_queues, agent_state, started, workerVars, notifyVars,
           processed, pending, agent_frames, connVars, monitorVars, otherVars >>

Range(seq) == { seq[i] : i \in 1..Len(seq) }
Without(f, k) == [x \in DOMAIN f \ {k} |-> f[x]]
With(f, k, v) == [x \in DOMAIN f \cup {k} |-> IF x = k THEN v ELSE f[x]]
Min(a, b) == IF a < b THEN a ELSE b
\* the first and the last of a sequence with one more element
OldestNewest(seq, x) == IF seq = << >> THEN << x >> ELSE << Head(seq), x >>
LastTwo(seq) == IF Len(seq) <= 2 THEN seq ELSE SubSeq(seq, Len(seq) - 1, Len(seq))

NoData == [id |-> 0, kind |-> Garbage]
NoIter == [keys |-> << >>, size |-> 0]
\* the tasks of the HTTP variant: one ws_unity_agent handler per agent, the
\* ws_monitor handlers, and a controller thread that reads the store
AgentTasks == {"u1", "u2"}
MonitorTasks == {"v1", "v2"}
ReaderTasks == {"r1"}
HttpTasks == AgentTasks \cup MonitorTasks \cup ReaderTasks
AgentOf(t) == IF t = "u1" THEN "A1" ELSE "A2"
\* where a task stands: "closed"; "net", inside the named network call or
\* sleep; "ready", about to enter the named method of the store; "in", inside
\* the method's "with self.lock"
Pos(st, op) == [st |-> st, op |-> op]

\* the request threads of handle_yolo (werkzeug, threaded=True) and the
\* websocket of handle_ws
PostRequests == {"p1", "p2"}
WsRequests == {"w1"}
Requests == PostRequests \cup WsRequests
\* pc: "idle"; "check", at "if agent_id not in agent_queues"; "start", at
\* AgentYoloThread(agent_id).start(); "fetch", at q = agent_queues[agent_id];
\* "put", inside q.put(frame); "listen", in "async for message in websocket"
NoRequest == [pc |-> "idle", agent |-> "", q |-> 0]
NoListing == [done |-> FALSE, agents |-> {}]
NoFetch == [agent |-> "", data |-> NoData]
NoCall == [frame |-> 0, offsets |-> {}, at |-> 0, ok |-> FALSE, retry |-> FALSE]

Init ==
  /\ clock = StartTime
  /\ agent_queues = << >>
  /\ agent_state = << >>
  /\ started = [a \in Agents |-> 0]
  /\ wpc = [a \in Agents |-> "none"]
  /\ w_frame = [a \in Agents |-> NoneFrame]
  /\ w_now = [a \in Agents |-> 0]
  /\ w_dets = [a \in Agents |-> << >>]
  /\ w_road = [a \in Agents |-> << >>]
  /\ w_blocked = [a \in Agents |-> {}]
  /\ last_send_time = [a \in Agents |-> 0]
  /\ last_sent_offsets = [a \in Agents |-> {}]
  /\ calls = [a \in Agents |-> NoCall]
  /\ unity_recv = [a \in Agents |-> {}]
  /\ run_offsets = [a \in Agents |-> {}]
  /\ run_sends = [a \in Agents |-> << >>]
  /\ processed = [a \in Agents |-> << >>]
  /\ pending = [a \in Agents |-> << >>]
  /\ agent_frames = << >>
  /\ cpc = [c \in Conns |-> "closed"]
  /\ c_agent = [c \in Conns |-> "A1"]
  /\ c_last_sent = [c \in Conns |-> 0]
  /\ c_data = [c \in Conns |-> NoData]
  /\ c_targets = [c \in Conns |-> << >>]
  /\ c_results = [c \in Conns |-> << >>]
  /\ loop = "idle"
  /\ delivery = [c \in Conns |-> "none"]
  /\ next_id = 1
  /\ monitor_clients = << >>
  /\ mpc = [m \in Monitors |-> "closed"]
  /\ m_alive = [m \in Monitors |-> FALSE]
  /\ m_iter = [m \in Monitors |-> NoIter]
  /\ m_sent_at = [m \in Monitors |-> 0]
  /\ frames = << >>
  /\ agent_last_seen = << >>
  /\ listing = NoListing
  /\ fetched = NoFetch
  /\ m_stalled = {}
  /\ lock = "free"
  /\ store_clients = {}
  /\ hpc = [t \in HttpTasks |-> Pos("closed", "")]
  /\ h_data = [t \in AgentTasks |-> NoData]
  /\ h_snap = [t \in AgentTasks |-> << >>]
  /\ p_args = << >>
  /\ p_ret = << >>
  /\ t_agent = << >>
  /\ t_pc = << >>
  /\ t_q = << >>
  /\ h_queues = << >>
  /\ h_state = << >>
  /\ rq = [r \in Requests |-> NoRequest]
  /\ h_gone = {}
  /\ h_failed = {}

(***************************************************************************)
(* The agent's thread: AgentYoloThread.run.                                *)
(***************************************************************************)
\* model = YOLO("yolo11n-seg.pt"): loaded, or the thread records the error
\* and returns
WorkerLoad(a) ==
  /\ wpc[a] = "load"
  /\ \/ /\ wpc' = [wpc EXCEPT ![a] = "get"]
        /\ UNCHANGED agent_state
     \/ /\ wpc' = [wpc EXCEPT ![a] = "dead"]
        /\ agent_state' = [agent_state EXCEPT ![a] = ErrorRecord("model load failed")]
  /\ UNCHANGED << clock, agent_queues, started, w_frame, w_now, w_dets, w_road,
                  w_blocked, last_send_time, last_sent_offsets, notifyVars,
                  processed, pending, agent_frames, connVars, monitorVars, otherVars >>

\* frame = self.q.get(); now = time.time()
\* (augv_ws never puts None, so "if frame is None: continue" is not taken)
WorkerGet(a) ==
  /\ wpc[a] = "get"
  /\ agent_queues[a] # << >>
  /\ w_frame' = [w_frame EXCEPT ![a] = Head(agent_queues[a])]
  /\ agent_queues' = [agent_queues EXCEPT ![a] = Tail(@)]
  /\ w_now' = [w_now EXCEPT ![a] = clock]
  /\ wpc' = [wpc EXCEPT ![a] = "detect"]
  /\ pending' = [pending EXCEPT ![a] = << >>]
  /\ UNCHANGED << clock, agent_state, started, w_dets, w_road, w_blocked,
                  last_send_time, last_sent_offsets, notifyVars, processed,
                  agent_frames, connVars, monitorVars, otherVars >>

\* the locals of run() are not read again before the next frame sets them
EndOfFrame(a) ==
  /\ w_frame' = [w_frame EXCEPT ![a] = NoneFrame]
  /\ w_now' = [w_now EXCEPT ![a] = 0]
  /\ w_dets' = [w_dets EXCEPT ![a] = << >>]
  /\ w_road' = [w_road EXCEPT ![a] = << >>]
  /\ w_blocked' = [w_blocked EXCEPT ![a] = {}]

\* the exception of a frame ends the thread
FrameFailedEndsThread(a, msg) ==
  /\ agent_state' = [agent_state EXCEPT ![a] = ErrorRecord(msg)]
  /\ wpc' = [wpc EXCEPT ![a] = "dead"]
  /\ processed' = [processed EXCEPT
                     ![a] = LastTwo(Append(@, [id |-> w_frame[a].id, status |-> "error"]))]
  /\ run_offsets' = [run_offsets EXCEPT ![a] = {}]
  /\ run_sends' = [run_sends EXCEPT ![a] = << >>]
  /\ EndOfFrame(a)

\* the exception of a frame marks every agent's record
FrameFailedAll(a, msg) ==
  /\ agent_state' = [b \in DOMAIN agent_state |-> ErrorRecord(msg)]
  /\ wpc' = [wpc EXCEPT ![a] = "get"]
  /\ processed' = [processed EXCEPT
                     ![a] = LastTwo(Append(@, [id |-> w_frame[a].id, status |-> "error"]))]
  /\ run_offsets' = [run_offsets EXCEPT ![a] = {}]
  /\ run_sends' = [run_sends EXCEPT ![a] = << >>]
  /\ EndOfFrame(a)

\* except Exception as e: agent_state[id] = {'status': 'error', 'error': str(e)}
FrameFailed(a, msg) ==
  /\ agent_state' = [agent_state EXCEPT ![a] = ErrorRecord(msg)]
  /\ wpc' = [wpc EXCEPT ![a] = "get"]
  /\ processed' = [processed EXCEPT
                     ![a] = LastTwo(Append(@, [id |-> w_frame[a].id, status |-> "error"]))]
  /\ run_offsets' = [run_offsets EXCEPT ![a] = {}]
  /\ run_sends' = [run_sends EXCEPT ![a] = << >>]
  /\ EndOfFrame(a)

\* model.predict, the road contour, the loop over results.boxes, cv2.imwrite
WorkerDetect(a) ==
  /\ wpc[a] = "detect"
  /\ \/ /\ w_frame[a].kind = "bad"
        /\ FrameFailed(a, "predict failed")
     \/ /\ w_frame[a].kind # "bad"
        /\ FrameFailed(a, "imwrite failed")
     \/ /\ w_frame[a].kind # "bad"
        /\ w_dets' = [w_dets EXCEPT ![a] = Detections(w_frame[a])]
        /\ w_road' = [w_road EXCEPT ![a] = RoadOutline(w_frame[a].kind)]
        /\ w_blocked' = [w_blocked EXCEPT ![a] = BlockedOffsets(w_frame[a])]
        /\ wpc' = [wpc EXCEPT ![a] = "notify"]
        /\ UNCHANGED << agent_state, processed, run_offsets, run_sends, w_frame, w_now >>
  /\ UNCHANGED << clock, agent_queues, started, last_send_time,
                  last_sent_offsets, calls, unity_recv, pending, agent_frames, connVars,
                  monitorVars, otherVars >>

\* send_obstacle_data_to_unity(agent_id, blocked_offsets): the message reaches
\* Unity (ok), or connect/send raises and the exception is printed
send_obstacle_data_to_unity(a, blocked_offsets, ok) ==
  /\ unity_recv' = IF ok THEN [unity_recv EXCEPT ![a] = blocked_offsets]
                   ELSE unity_recv
  /\ calls' = [calls EXCEPT ![a] = [frame |-> w_frame[a].id, offsets |-> blocked_offsets,
                                    at |-> w_now[a], ok |-> ok,
                                    \* the call before this one had failed
                                    retry |-> calls[a].frame # 0 /\ ~calls[a].ok]]

\* the debounce state follows only a send that reached Unity
WorkerNotifyOnlyIfSent(a) ==
  /\ wpc[a] = "notify"
  /\ LET same == run_offsets[a] = {w_blocked[a]}
         sends == IF same THEN run_sends[a] ELSE << >>
     IN /\ run_offsets' = [run_offsets EXCEPT ![a] = {w_blocked[a]}]
        /\ IF ShouldNotify(w_blocked[a], w_now[a], last_send_time[a],
                           last_sent_offsets[a])
           THEN /\ \E ok \in BOOLEAN :
                     /\ send_obstacle_data_to_unity(a, w_blocked[a], ok)
                     /\ last_send_time' = [last_send_time EXCEPT
                                             ![a] = IF ok THEN w_now[a] ELSE @]
                     /\ last_sent_offsets' = [last_sent_offsets EXCEPT
                                                ![a] = IF ok THEN w_blocked[a] ELSE @]
                /\ run_sends' = [run_sends EXCEPT ![a] = Append(sends, w_now[a])]
           ELSE /\ run_sends' = [run_sends EXCEPT ![a] = sends]
                /\ UNCHANGED << last_send_time, last_sent_offsets, calls, unity_recv >>
  /\ wpc' = [wpc EXCEPT ![a] = "write"]
  /\ UNCHANGED << clock, agent_queues, agent_state, started, w_frame, w_now,
                  w_dets, w_road, w_blocked, processed, pending, agent_frames, connVars,
                  monitorVars, otherVars >>

\* the debounced notification, lines 149-156
WorkerNotify(a) ==
  /\ wpc[a] = "notify"
  /\ LET same == run_offsets[a] = {w_blocked[a]}
         sends == IF same THEN run_sends[a] ELSE << >>
     IN /\ run_offsets' = [run_offsets EXCEPT ![a] = {w_blocked[a]}]
        /\ IF ShouldNotify(w_blocked[a], w_now[a], last_send_time[a],
                           last_sent_offsets[a])
           THEN /\ \E ok \in BOOLEAN :
                     send_obstacle_data_to_unity(a, w_blocked[a], ok)
                /\ last_send_time' = [last_send_time EXCEPT ![a] = w_now[a]]
                /\ last_sent_offsets' = [last_sent_offsets EXCEPT ![a] = w_blocked[a]]
                /\ run_sends' = [run_sends EXCEPT ![a] = Append(sends, w_now[a])]
           ELSE /\ run_sends' = [run_sends EXCEPT ![a] = sends]
                /\ UNCHANGED << last_send_time, last_sent_offsets, calls, unity_recv >>
  /\ wpc' = [wpc EXCEPT ![a] = "write"]
  /\ UNCHANGED << clock, agent_queues, agent_state, started, w_frame, w_now,
                  w_dets, w_road, w_blocked, processed, pending, agent_frames, connVars,
                  monitorVars, otherVars >>

\* a failed send of the frame turns its record into an error record
WorkerWriteFailedSendIsError(a) ==
  /\ wpc[a] = "write"
  /\ agent_state' = [agent_state EXCEPT
                       ![a] = IF calls[a].frame = w_frame[a].id /\ ~calls[a].ok
                              THEN ErrorRecord("send failed")
                              ELSE ProcessedRecord(w_dets[a], w_road[a], w_blocked[a])]
  /\ processed' = [processed EXCEPT
                     ![a] = LastTwo(Append(@, [id |-> w_frame[a].id,
                                               status |-> agent_state'[a].status]))]
  /\ wpc' = [wpc EXCEPT ![a] = "get"]
  /\ EndOfFrame(a)
  /\ UNCHANGED << clock, agent_queues, started, last_send_time, last_sent_offsets,
                  notifyVars, pending, agent_frames, connVars, monitorVars, otherVars >>

\* the frame's offsets are added to those of the record before
WorkerWriteMerged(a) ==
  /\ wpc[a] = "write"
  /\ agent_state' = [agent_state EXCEPT
                       ![a] = ProcessedRecord(w_dets[a], w_road[a],
                                              w_blocked[a] \cup @.blocked_offsets)]
  /\ processed' = [processed EXCEPT
                     ![a] = LastTwo(Append(@, [id |-> w_frame[a].id,
                                               status |-> agent_state'[a].status]))]
  /\ wpc' = [wpc EXCEPT ![a] = "get"]
  /\ EndOfFrame(a)
  /\ UNCHANGED << clock, agent_queues, started, last_send_time, last_sent_offsets,
                  notifyVars, pending, agent_frames, connVars, monitorVars, otherVars >>

\* agent_state[self.agent_id] = {'status': ..., 'detections': ..., ...}
WorkerWrite(a) ==
  /\ wpc[a] = "write"
  /\ agent_state' = [agent_state EXCEPT
                       ![a] = ProcessedRecord(w_dets[a], w_road[a], w_blocked[a])]
  /\ processed' = [processed EXCEPT
                     ![a] = LastTwo(Append(@, [id |-> w_frame[a].id,
                                               status |-> agent_state'[a].status]))]
  /\ wpc' = [wpc EXCEPT ![a] = "get"]
  /\ EndOfFrame(a)
  /\ UNCHANGED << clock, agent_queues, started, last_send_time, last_sent_offsets,
                  notifyVars, pending, agent_frames, connVars, monitorVars, otherVars >>

\* time passes
Tick ==
  /\ clock < MaxTime
  /\ clock' = clock + 1
  /\ UNCHANGED << agent_queues, agent_state, started, workerVars, notifyVars,
                  processed, pending, agent_frames, connVars, monitorVars, otherVars >>

(***************************************************************************)
(* The agents' endpoint: augv_ws.  A coroutine runs alone from one await   *)
(* to the next: while one holds the event loop (loop), no other coroutine  *)
(* steps; the agents' threads step at any time.                            *)
(***************************************************************************)
\* AgentYoloThread(agent_id).start(): __init__ and the start of run()
NewThread(a) ==
  /\ agent_queues' = With(agent_queues, a, << >>)
  /\ agent_state' = With(agent_state, a, WaitingRecord)
  /\ started' = [started EXCEPT ![a] = @ + 1]
  /\ wpc' = [wpc EXCEPT ![a] = "load"]
  /\ last_send_time' = [last_send_time EXCEPT ![a] = 0]
  /\ last_sent_offsets' = [last_sent_offsets EXCEPT ![a] = {}]
  /\ pending' = [pending EXCEPT ![a] = << >>]

\* a thread for every connection, whether the agent has one or not
NeedsThreadAlways(a) == TRUE

\* if agent_id not in agent_queues
NeedsThread(a) == a \notin DOMAIN agent_queues

\* a client opens /ws/augv/{agent_id}; the handler waits in websocket.accept()
Connect(c, a) ==
  /\ loop = "idle"
  /\ cpc[c] = "closed"
  /\ cpc' = [cpc EXCEPT ![c] = "accept"]
  /\ c_agent' = [c_agent EXCEPT ![c] = a]
  \* the locals of a new call of the handler
  /\ c_last_sent' = [c_last_sent EXCEPT ![c] = 0]
  /\ c_data' = [c_data EXCEPT ![c] = NoData]
  /\ c_targets' = [c_targets EXCEPT ![c] = << >>]
  /\ c_results' = [c_results EXCEPT ![c] = << >>]
  /\ delivery' = [delivery EXCEPT ![c] = "none"]
  /\ UNCHANGED << clock, agent_queues, agent_state, started, workerVars,
                  notifyVars, processed, pending, agent_frames, loop, next_id,
                  monitorVars, otherVars >>

\* after accept: start the agent's thread unless it has one; last_sent = 0
Accepted(c) ==
  /\ loop = "idle"
  /\ cpc[c] = "accept"
  /\ IF NeedsThread(c_agent[c])
     THEN NewThread(c_agent[c])
     ELSE UNCHANGED << agent_queues, agent_state, started, wpc, last_send_time,
                       last_sent_offsets, pending >>
  /\ c_last_sent' = [c_last_sent EXCEPT ![c] = 0]
  /\ cpc' = [cpc EXCEPT ![c] = "recv"]
  /\ UNCHANGED << clock, w_frame, w_now, w_dets, w_road, w_blocked, notifyVars,
                  processed, agent_frames, c_agent, c_data, c_targets,
                  c_results, loop, delivery, next_id, monitorVars, otherVars >>

\* the test left out: the put is tried whatever the inbox holds
FullNever(q) == FALSE

\* queue.Queue.full()
Full(q) == Len(q) >= QueueMaxSize

\* client.send_bytes(payload): the payload arrives, or the send raises, or,
\* the peer not reading, the send does not return
SendResult(m) ==
  IF m \in m_stalled THEN "hang" ELSE IF m_alive[m] THEN "ok" ELSE "exc"

\* the results of the gather: a send that did not return has its result once
\* the peer reads again or goes away
Resolved(c) ==
  [i \in DOMAIN c_results[c] |->
     IF c_results[c][i] = "hang" THEN SendResult(c_targets[c][i]) ELSE c_results[c][i]]

\* lines 46-56: payload = header + data, the header read from agent_state;
\* one send for every client of list(monitor_clients); the handler waits in
\* asyncio.gather
Broadcast(c, data) ==
  LET clients == monitor_clients
  IN IF clock >= c_last_sent[c]
     THEN /\ c_last_sent' = [c_last_sent EXCEPT ![c] = clock]
          /\ c_targets' = [c_targets EXCEPT ![c] = clients]
          /\ c_results' = [c_results EXCEPT
                             ![c] = [i \in 1..Len(clients) |-> SendResult(clients[i])]]
          /\ cpc' = [cpc EXCEPT ![c] = "gather"]
     ELSE /\ cpc' = [cpc EXCEPT ![c] = "recv"]
          /\ UNCHANGED << c_last_sent, c_targets, c_results >>

\* data = await websocket.receive_bytes(); agent_frames[agent_id] = data;
\* decode; if frame is not None and not agent_queues[agent_id].full();
\* except Exception: log "frame decode error"
ReceiveData(c, data) ==
  /\ loop = "idle"
  /\ cpc[c] = "recv"
  /\ LET frame == Decode(data)
     IN /\ c_data' = [c_data EXCEPT ![c] = data]
        /\ agent_frames' = With(agent_frames, c_agent[c], data)
        /\ pending' = IF frame \notin {NoneFrame, DecodeError}
                      THEN [pending EXCEPT ![c_agent[c]] = OldestNewest(@, data.id)]
                      ELSE pending
        /\ IF frame = DecodeError
           THEN /\ delivery' = [delivery EXCEPT ![c] = "decode error"]
                /\ Broadcast(c, data)
                /\ UNCHANGED loop
           ELSE IF frame # NoneFrame /\ ~Full(agent_queues[c_agent[c]])
           THEN /\ cpc' = [cpc EXCEPT ![c] = "put"]
                /\ loop' = c
                /\ UNCHANGED << c_last_sent, c_targets, c_results, delivery >>
           ELSE /\ delivery' = [delivery EXCEPT ![c] = "dropped"]
                /\ Broadcast(c, data)
                /\ UNCHANGED loop
  /\ UNCHANGED << clock, agent_queues, agent_state, started, workerVars,
                  notifyVars, processed, c_agent, monitor_clients, mpc, m_alive,
                  m_iter, m_sent_at, m_stalled, otherVars >>

\* the agent sends a message of its own: the messages are numbered as sent
Receive(c, kind) ==
  /\ next_id <= MaxFrames
  /\ next_id' = next_id + 1
  /\ ReceiveData(c, [id |-> next_id, kind |-> kind])

\* the agent sends the same bytes again and again
ReceiveSame(c, kind) ==
  /\ UNCHANGED next_id
  /\ ReceiveData(c, [id |-> 1, kind |-> kind])

\* agent_queues[agent_id].put_nowait(frame): queue.Full, were it raised, is
\* caught and logged by "except Exception"; then the broadcast
Put(c) ==
  /\ loop = c
  /\ cpc[c] = "put"
  /\ IF Len(agent_queues[c_agent[c]]) >= QueueMaxSize
     THEN /\ delivery' = [delivery EXCEPT ![c] = "queue.Full"]
          /\ UNCHANGED agent_queues
     ELSE /\ delivery' = [delivery EXCEPT ![c] = "put"]
          /\ agent_queues' = [agent_queues EXCEPT
                                ![c_agent[c]] = Append(@, Decode(c_data[c]))]
  /\ Broadcast(c, c_data[c])
  /\ loop' = "idle"
  /\ UNCHANGED << clock, agent_state, started, workerVars, notifyVars, processed, pending,
                  agent_frames, c_agent, c_data, next_id,
                  monitor_clients, mpc, m_alive, m_iter,
                  m_sent_at, m_stalled, otherVars >>

\* for client, result in zip(list(monitor_clients), results):
\*     if isinstance(result, Exception): monitor_clients.discard(client)
Discarded(clients, results) ==
  { clients[i] : i \in { j \in 1..Min(Len(clients), Len(results)) : results[j] = "exc" } }

\* asyncio.gather returns when every send has returned or raised
GatherDone(c) ==
  /\ loop = "idle"
  /\ cpc[c] = "gather"
  /\ "hang" \notin Range(Resolved(c))
  /\ monitor_clients' = SelectSeq(monitor_clients,
        LAMBDA m : m \notin Discarded(monitor_clients, Resolved(c)))
  /\ cpc' = [cpc EXCEPT ![c] = "recv"]
  \* data, send_tasks and results are not read again
  /\ c_targets' = [c_targets EXCEPT ![c] = << >>]
  /\ c_results' = [c_results EXCEPT ![c] = << >>]
  /\ c_data' = [c_data EXCEPT ![c] = NoData]
  /\ delivery' = [delivery EXCEPT ![c] = "none"]
  /\ UNCHANGED << clock, agent_queues, agent_state, started, workerVars,
                  notifyVars, processed, pending, agent_frames, c_agent, c_last_sent,
                  loop, next_id, mpc, m_alive, m_iter, m_sent_at, m_stalled, otherVars >>

\* receive_bytes raises WebSocketDisconnect; finally: agent_frames.pop(agent_id, None)
Disconnect(c) ==
  /\ loop = "idle"
  /\ cpc[c] = "recv"
  /\ agent_frames' = Without(agent_frames, c_agent[c])
  /\ cpc' = [cpc EXCEPT ![c] = "closed"]
  /\ UNCHANGED << clock, agent_queues, agent_state, started, workerVars,
                  notifyVars, processed, pending, c_agent, c_last_sent, c_data,
                  c_targets, c_results, loop, delivery, next_id, monitorVars, otherVars >>

(***************************************************************************)
(* The monitors' endpoint: monitor_ws.                                     *)
(***************************************************************************)
\* a set's iteration order: a new element may come at any place
Inserted(seq, m, pos) ==
  IF m \in Range(seq) THEN seq
  ELSE SubSeq(seq, 1, pos - 1) \o << m >> \o SubSeq(seq, pos, Len(seq))

\* a monitor opens /ws/monitor; the handler waits in websocket.accept()
MonitorConnect(m) ==
  /\ loop = "idle"
  /\ mpc[m] = "closed"
  /\ m \notin Range(monitor_clients)
  /\ ~m_alive[m]
  /\ mpc' = [mpc EXCEPT ![m] = "accept"]
  /\ m_alive' = [m_alive EXCEPT ![m] = TRUE]
  /\ UNCHANGED << clock, agent_queues, agent_state, started, workerVars,
                  notifyVars, processed, pending, agent_frames, connVars, monitor_clients,
                  m_iter, m_sent_at, m_stalled, otherVars >>

\* monitor_clients.add(websocket); for agent_id, frame in agent_frames.items():
\* with no agent in agent_frames the handler goes to sleep at once, else it
\* waits in the send of the first agent's payload
MonitorAccepted(m) ==
  /\ loop = "idle"
  /\ mpc[m] = "accept"
  /\ \E pos \in 1..Len(monitor_clients) + 1 :
       monitor_clients' = Inserted(monitor_clients, m, pos)
  /\ IF DOMAIN agent_frames = {}
     THEN /\ mpc' = [mpc EXCEPT ![m] = "idle"]
          /\ UNCHANGED m_iter
     ELSE /\ \E keys \in [1..Cardinality(DOMAIN agent_frames) -> DOMAIN agent_frames] :
               /\ Range(keys) = DOMAIN agent_frames
               /\ m_iter' = [m_iter EXCEPT ![m] = [keys |-> Tail(keys),
                                                   size |-> Cardinality(DOMAIN agent_frames)]]
          /\ mpc' = [mpc EXCEPT ![m] = "init"]
  /\ m_sent_at' = [m_sent_at EXCEPT ![m] = clock]
  /\ UNCHANGED << clock, agent_queues, agent_state, started, workerVars,
                  notifyVars, processed, pending, agent_frames, connVars, m_alive,
                  m_stalled, otherVars >>

\* a failed send of an initial payload ends the handler
MonitorInitSendFailEnds(m) ==
  /\ loop = "idle"
  /\ mpc[m] = "init"
  /\ m \notin m_stalled
  /\ IF Cardinality(DOMAIN agent_frames) # m_iter[m].size \/ ~m_alive[m]
     THEN /\ monitor_clients' = SelectSeq(monitor_clients, LAMBDA x : x # m)
          /\ mpc' = [mpc EXCEPT ![m] = "closed"]
          /\ m_iter' = [m_iter EXCEPT ![m] = NoIter]
          /\ m_sent_at' = [m_sent_at EXCEPT ![m] = 0]
     ELSE IF m_iter[m].keys = << >>
     THEN /\ mpc' = [mpc EXCEPT ![m] = "idle"]
          /\ m_iter' = [m_iter EXCEPT ![m] = NoIter]
          /\ UNCHANGED << monitor_clients, m_sent_at >>
     ELSE /\ m_iter' = [m_iter EXCEPT ![m].keys = Tail(@)]
          /\ m_sent_at' = [m_sent_at EXCEPT ![m] = clock]
          /\ UNCHANGED << monitor_clients, mpc >>
  /\ UNCHANGED << clock, agent_queues, agent_state, started, workerVars,
                  notifyVars, processed, pending, agent_frames, connVars, m_alive,
                  m_stalled, otherVars >>

\* the send of an initial payload returns, a failed send being logged, and the
\* loop over agent_frames.items() takes its next turn: the dict has changed
\* size (RuntimeError, the handler ends, finally: discard), or the items are
\* exhausted (while True: await asyncio.sleep(10)), or the payload of the next
\* agent is sent
MonitorInitSend(m) ==
  /\ loop = "idle"
  /\ mpc[m] = "init"
  /\ m \notin m_stalled
  /\ IF Cardinality(DOMAIN agent_frames) # m_iter[m].size
     THEN /\ monitor_clients' = SelectSeq(monitor_clients, LAMBDA x : x # m)
          /\ mpc' = [mpc EXCEPT ![m] = "closed"]
          /\ m_iter' = [m_iter EXCEPT ![m] = NoIter]
          /\ m_sent_at' = [m_sent_at EXCEPT ![m] = 0]
     ELSE IF m_iter[m].keys = << >>
     THEN /\ mpc' = [mpc EXCEPT ![m] = "idle"]
          /\ m_iter' = [m_iter EXCEPT ![m] = NoIter]
          /\ UNCHANGED << monitor_clients, m_sent_at >>
     ELSE /\ m_iter' = [m_iter EXCEPT ![m].keys = Tail(@)]
          /\ m_sent_at' = IF m_alive[m] THEN [m_sent_at EXCEPT ![m] = clock]
                          ELSE m_sent_at
          /\ UNCHANGED << monitor_clients, mpc >>
  /\ UNCHANGED << clock, agent_queues, agent_state, started, workerVars,
                  notifyVars, processed, pending, agent_frames, connVars, m_alive,
                  m_stalled, otherVars >>

\* the monitor's peer goes away; monitor_ws, which never receives, is not told
MonitorGone(m) ==
  /\ m_alive[m]
  /\ mpc[m] # "closed"
  /\ m_alive' = [m_alive EXCEPT ![m] = FALSE]
  /\ m_stalled' = m_stalled \ {m}
  /\ UNCHANGED << clock, agent_queues, agent_state, started, workerVars,
                  notifyVars, processed, pending, agent_frames, connVars, monitor_clients,
                  mpc, m_iter, m_sent_at, otherVars >>

\* the monitor's peer stays connected but stops reading: a send to it does
\* not return
MonitorStall(m) ==
  /\ m_alive[m]
  /\ mpc[m] # "closed"
  /\ m \notin m_stalled
  /\ m_stalled' = m_stalled \cup {m}
  /\ UNCHANGED << clock, agent_queues, agent_state, started, workerVars,
                  notifyVars, processed, pending, agent_frames, connVars, monitor_clients,
                  mpc, m_alive, m_iter, m_sent_at, otherVars >>

(***************************************************************************)
(* The frame store of the HTTP variant: AgentFrameStore                    *)
(* (src/HTTP/webapp/agent_stream.py).  Its methods run under self.lock.    *)
(***************************************************************************)
\* an agent seen exactly 10 s ago is still listed
get_agents_inclusive(now) ==
  { aid \in DOMAIN agent_last_seen : now - agent_last_seen[aid] <= LivenessWindow }

\* [aid for aid, ts in self.agent_last_seen.items() if now - ts < 10]
get_agents(now) ==
  { aid \in DOMAIN agent_last_seen : now - agent_last_seen[aid] < LivenessWindow }

\* self.frames.get(agent_id)
get_frame(agent_id) ==
  IF agent_id \in DOMAIN frames THEN frames[agent_id] ELSE NoData

\* self.frames[agent_id] = frame; self.agent_last_seen[agent_id] = time.time()
set_frame(agent_id, frame) ==
  /\ frames' = With(frames, agent_id, frame)
  /\ agent_last_seen' = With(agent_last_seen, agent_id, clock)

\* ws_unity_agent: data = await websocket.receive_bytes();
\* AGENT_FRAMES.set_frame(agent_id, data).  The sends to the clients that
\* follow change nothing of the store.
StoreReceive(a, data) ==
  /\ set_frame(a, data)
  /\ listing' = NoListing
  /\ fetched' = NoFetch
  /\ UNCHANGED << clock, agent_queues, agent_state, started, workerVars,
                  notifyVars, processed, pending, agent_frames, connVars,
                  monitorVars, httpVars, projVars, ctlVars, goneVars >>

\* a reader calls get_active_agents()
GetAgents ==
  /\ listing' = [done |-> TRUE, agents |-> get_agents(clock)]
  /\ UNCHANGED << clock, agent_queues, agent_state, started, workerVars,
                  notifyVars, processed, pending, agent_frames, connVars,
                  monitorVars, frames, agent_last_seen, fetched, httpVars, projVars, ctlVars, goneVars >>

\* a reader calls get_agent_frame(agent_id)
GetFrame(a) ==
  /\ fetched' = [agent |-> a, data |-> get_frame(a)]
  /\ UNCHANGED << clock, agent_queues, agent_state, started, workerVars,
                  notifyVars, processed, pending, agent_frames, connVars,
                  monitorVars, frames, agent_last_seen, listing, httpVars, projVars, ctlVars, goneVars >>

\* time passes, d ticks at once; what the readers were told is then old
Elapse(d, until) ==
  /\ clock + d <= until
  /\ clock' = clock + d
  /\ listing' = NoListing
  /\ fetched' = NoFetch
  /\ UNCHANGED << agent_queues, agent_state, started, workerVars, notifyVars,
                  processed, pending, agent_frames, connVars, monitorVars,
                  frames, agent_last_seen, httpVars, projVars, ctlVars, goneVars >>

(***************************************************************************)
(* The handlers of the HTTP variant, step by step, with the store's lock:  *)
(* ws_unity_agent, ws_monitor and a reader of the store.                   *)
(***************************************************************************)
HttpBase ==
  UNCHANGED << clock, agent_queues, agent_state, started, workerVars, notifyVars,
               processed, pending, agent_frames, connVars, monitorVars, projVars,
               ctlVars, h_gone >>

HttpUnchanged == HttpBase /\ UNCHANGED h_failed

\* the peer of a client of the store goes away; ws_monitor, asleep, is not
\* told, and every later send_bytes to the client raises
HGone(t) ==
  /\ t \in MonitorTasks
  /\ hpc[t].st # "closed"
  /\ t \notin h_gone
  /\ h_gone' = h_gone \cup {t}
  /\ UNCHANGED << clock, agent_queues, agent_state, started, workerVars, notifyVars,
                  processed, pending, agent_frames, connVars, monitorVars,
                  storeVars, httpVars, projVars, ctlVars, h_failed >>

\* the lock is kept when the with block is left
ExitKeeps(t) == lock' = lock

\* the end of "with self.lock:"
Exit(t) == lock' = "free"

\* a client opens the websocket; the handler waits in websocket.accept()
HAccept(t) ==
  /\ t \in AgentTasks \cup MonitorTasks
  /\ hpc[t].st = "closed"
  /\ hpc' = [hpc EXCEPT ![t] = Pos("net", "accept")]
  /\ UNCHANGED << storeVars, lock, store_clients, h_data, h_snap >>
  /\ HttpUnchanged

\* accept returns: ws_unity_agent waits in receive_bytes, ws_monitor goes on
\* to AGENT_FRAMES.register_client(websocket)
HAccepted(t) ==
  /\ hpc[t] = Pos("net", "accept")
  /\ hpc' = [hpc EXCEPT ![t] = IF t \in AgentTasks THEN Pos("net", "receive_bytes")
                                 ELSE Pos("ready", "register_client")]
  /\ UNCHANGED << storeVars, lock, store_clients, h_data, h_snap >>
  /\ HttpUnchanged

\* "with self.lock:" is entered once the lock is free
HEnter(t) ==
  /\ hpc[t].st = "ready"
  /\ lock = "free"
  /\ lock' = t
  /\ hpc' = [hpc EXCEPT ![t] = Pos("in", hpc[t].op)]
  /\ UNCHANGED << storeVars, store_clients, h_data, h_snap >>
  /\ HttpUnchanged

\* data = await websocket.receive_bytes()
HReceive(t, data) ==
  /\ hpc[t] = Pos("net", "receive_bytes")
  /\ h_data' = [h_data EXCEPT ![t] = data]
  /\ hpc' = [hpc EXCEPT ![t] = Pos("ready", "set_frame")]
  /\ UNCHANGED << storeVars, lock, store_clients, h_snap >>
  /\ HttpUnchanged

\* receive_bytes raises: except Exception: pass, the handler ends
HClose(t) ==
  /\ hpc[t] = Pos("net", "receive_bytes")
  /\ hpc' = [hpc EXCEPT ![t] = Pos("closed", "")]
  /\ h_data' = [h_data EXCEPT ![t] = NoData]
  /\ UNCHANGED << storeVars, lock, store_clients, h_snap >>
  /\ HttpUnchanged

\* AGENT_FRAMES.set_frame(agent_id, data), inside the lock
HSetFrame(t) ==
  /\ hpc[t] = Pos("in", "set_frame")
  /\ set_frame(AgentOf(t), h_data[t])
  /\ listing' = NoListing
  /\ fetched' = NoFetch
  /\ Exit(t)
  /\ hpc' = [hpc EXCEPT ![t] = Pos("ready", "get_clients")]
  /\ UNCHANGED << store_clients, h_data, h_snap >>
  /\ HttpUnchanged

\* for client in AGENT_FRAMES.get_clients(): list(self.clients), inside the
\* lock; then the first send, or with no client the next receive
HGetClients(t) ==
  /\ hpc[t] = Pos("in", "get_clients")
  /\ \E snap \in [1..Cardinality(store_clients) -> store_clients] :
       /\ Range(snap) = store_clients
       /\ h_snap' = [h_snap EXCEPT ![t] = snap]
  /\ Exit(t)
  /\ hpc' = [hpc EXCEPT ![t] = IF store_clients = {} THEN Pos("net", "receive_bytes")
                                 ELSE Pos("net", "send_bytes")]
  /\ h_data' = [h_data EXCEPT ![t] = IF store_clients = {} THEN NoData ELSE @]
  /\ UNCHANGED << storeVars, store_clients >>
  /\ HttpUnchanged

\* await client.send_bytes(data) returns, or raises (except Exception: pass);
\* then the next client, or the next receive
HSend(t) ==
  /\ hpc[t] = Pos("net", "send_bytes")
  /\ h_snap' = [h_snap EXCEPT ![t] = Tail(@)]
  /\ hpc' = [hpc EXCEPT ![t] = IF Tail(h_snap[t]) = << >>
                                 THEN Pos("net", "receive_bytes")
                                 ELSE Pos("net", "send_bytes")]
  /\ h_data' = [h_data EXCEPT ![t] = IF Tail(h_snap[t]) = << >> THEN NoData ELSE @]
  /\ h_failed' = IF Head(h_snap[t]) \in h_gone THEN h_failed \cup {Head(h_snap[t])}
                 ELSE h_failed
  /\ UNCHANGED << storeVars, lock, store_clients >>
  /\ HttpBase

\* AGENT_FRAMES.register_client(websocket), inside the lock; then
\* while True: await asyncio.sleep(60)
HRegister(t) ==
  /\ hpc[t] = Pos("in", "register_client")
  /\ store_clients' = store_clients \cup {t}
  /\ Exit(t)
  /\ hpc' = [hpc EXCEPT ![t] = Pos("net", "sleep")]
  /\ UNCHANGED << storeVars, h_data, h_snap >>
  /\ HttpUnchanged

\* the sleeping handler is cancelled; finally: unregister_client(websocket)
HCancel(t) ==
  /\ hpc[t] = Pos("net", "sleep")
  /\ hpc' = [hpc EXCEPT ![t] = Pos("ready", "unregister_client")]
  /\ UNCHANGED << storeVars, lock, store_clients, h_data, h_snap >>
  /\ HttpUnchanged

\* AGENT_FRAMES.unregister_client(websocket), inside the lock
HUnregister(t) ==
  /\ hpc[t] = Pos("in", "unregister_client")
  /\ store_clients' = store_clients \ {t}
  /\ Exit(t)
  /\ hpc' = [hpc EXCEPT ![t] = Pos("closed", "")]
  /\ UNCHANGED << storeVars, h_data, h_snap >>
  /\ HttpUnchanged

\* a controller thread calls get_active_agents()
HRead(t) ==
  /\ t \in ReaderTasks
  /\ hpc[t].st = "closed"
  /\ hpc' = [hpc EXCEPT ![t] = Pos("ready", "get_agents")]
  /\ UNCHANGED << storeVars, lock, store_clients, h_data, h_snap >>
  /\ HttpUnchanged

\* AgentFrameStore.get_agents, inside the lock
HGetAgents(t) ==
  /\ hpc[t] = Pos("in", "get_agents")
  /\ listing' = [done |-> TRUE, agents |-> get_agents(clock)]
  /\ Exit(t)
  /\ hpc' = [hpc EXCEPT ![t] = Pos("closed", "")]
  /\ UNCHANGED << frames, agent_last_seen, fetched, store_clients, h_data, h_snap >>
  /\ HttpUnchanged

(***************************************************************************)
(* The threaded controller of the HTTP variant: handle_yolo, handle_ws,    *)
(* receive_image and the threads they start.                               *)
(***************************************************************************)
CtlUnchanged ==
  UNCHANGED << clock, agent_queues, agent_state, started, workerVars, notifyVars,
               processed, pending, agent_frames, connVars, monitorVars,
               storeVars, httpVars, projVars, goneVars >>

\* AgentYoloThread(agent_id).start(): __init__ makes a queue, stores it in
\* agent_queues[agent_id] and sets agent_state[agent_id] to 'waiting',
\* whatever was there; start() runs run()
NewAgentYoloThread(a) ==
  /\ Len(t_agent) < MaxThreads
  /\ t_agent' = Append(t_agent, a)
  /\ t_pc' = Append(t_pc, "load")
  /\ t_q' = Append(t_q, << >>)
  /\ h_queues' = With(h_queues, a, Len(t_agent) + 1)
  /\ h_state' = With(h_state, a, "waiting")

\* a POST /api/yolo/stream/<agent_id> arrives on a thread of its own
PostArrives(r, a) ==
  /\ r \in PostRequests
  /\ rq[r].pc = "idle"
  /\ rq' = [rq EXCEPT ![r] = [pc |-> "check", agent |-> a, q |-> 0]]
  /\ UNCHANGED << t_agent, t_pc, t_q, h_queues, h_state >>
  /\ CtlUnchanged

\* if agent_id not in agent_queues (handle_yolo, receive_image).  In
\* receive_image the next statement that can fail is cv2.imdecode: route.py
\* does not import cv2, the NameError is caught and printed, and the
\* websocket goes on listening
Check(r) ==
  /\ rq[r].pc = "check"
  /\ rq' = [rq EXCEPT ![r].pc = IF rq[r].agent \notin DOMAIN h_queues THEN "start"
                                 ELSE IF r \in PostRequests THEN "fetch"
                                 ELSE "listen"]
  /\ UNCHANGED << t_agent, t_pc, t_q, h_queues, h_state >>
  /\ CtlUnchanged

\* AgentYoloThread(agent_id).start() after the check
Start(r) ==
  /\ rq[r].pc = "start"
  /\ NewAgentYoloThread(rq[r].agent)
  /\ rq' = [rq EXCEPT ![r].pc = IF r \in PostRequests THEN "fetch" ELSE "listen"]
  /\ CtlUnchanged

\* handle_yolo: the body is reshaped (a wrong size raises: 500), then
\* q = agent_queues[agent_id]; if not q.full(): ... else 200 without a put
Fetch(r) ==
  /\ rq[r].pc = "fetch"
  /\ \/ rq' = [rq EXCEPT ![r] = NoRequest]
     \/ /\ ~Full(t_q[h_queues[rq[r].agent]])
        /\ rq' = [rq EXCEPT ![r].pc = "put", ![r].q = h_queues[rq[r].agent]]
     \/ /\ Full(t_q[h_queues[rq[r].agent]])
        /\ rq' = [rq EXCEPT ![r] = NoRequest]
  /\ UNCHANGED << t_agent, t_pc, t_q, h_queues, h_state >>
  /\ CtlUnchanged

\* q.put(frame) returns: Queue.put waits while the queue is full
QPut(r) ==
  /\ rq[r].pc = "put"
  /\ ~Full(t_q[rq[r].q])
  /\ t_q' = [t_q EXCEPT ![rq[r].q] = Append(@, "frame")]
  /\ rq' = [rq EXCEPT ![r] = NoRequest]
  /\ UNCHANGED << t_agent, t_pc, h_queues, h_state >>
  /\ CtlUnchanged

\* an agent connects to ws://localhost:9999/ws/yolo/<agent_id>: handle_ws
\* starts a thread, then listens
WsConnect(r, a) ==
  /\ r \in WsRequests
  /\ rq[r].pc = "idle"
  /\ NewAgentYoloThread(a)
  /\ rq' = [rq EXCEPT ![r] = [pc |-> "listen", agent |-> a, q |-> 0]]
  /\ CtlUnchanged

\* a message with an image arrives: receive_image(agent_id, img_b64)
WsMessage(r) ==
  /\ rq[r].pc = "listen"
  /\ rq' = [rq EXCEPT ![r].pc = "check"]
  /\ UNCHANGED << t_agent, t_pc, t_q, h_queues, h_state >>
  /\ CtlUnchanged

\* the websocket closes: finally: del connected_agents[agent_id]
WsClose(r) ==
  /\ rq[r].pc = "listen"
  /\ rq' = [rq EXCEPT ![r] = NoRequest]
  /\ UNCHANGED << t_agent, t_pc, t_q, h_queues, h_state >>
  /\ CtlUnchanged

\* run(): model = YOLO(...), or the error record and return
TLoad(k) ==
  /\ k \in DOMAIN t_pc
  /\ t_pc[k] = "load"
  /\ \/ /\ t_pc' = [t_pc EXCEPT ![k] = "get"]
        /\ UNCHANGED h_state
     \/ /\ t_pc' = [t_pc EXCEPT ![k] = "dead"]
        /\ h_state' = [h_state EXCEPT ![t_agent[k]] = "error"]
  /\ UNCHANGED << t_agent, t_q, h_queues, rq >>
  /\ CtlUnchanged

\* frame = self.q.get()
TGet(k) ==
  /\ k \in DOMAIN t_pc
  /\ t_pc[k] = "get"
  /\ t_q[k] # << >>
  /\ t_q' = [t_q EXCEPT ![k] = Tail(@)]
  /\ t_pc' = [t_pc EXCEPT ![k] = "busy"]
  /\ UNCHANGED << t_agent, h_queues, h_state, rq >>
  /\ CtlUnchanged

\* agent_state[self.agent_id] = {'status': 'blocked' if is_blocked else
\* 'safe', ...}, or in the except {'status': 'error', ...}
TWrite(k) ==
  /\ k \in DOMAIN t_pc
  /\ t_pc[k] = "busy"
  /\ \E status \in {"safe", "blocked", "error"} :
       h_state' = [h_state EXCEPT ![t_agent[k]] = status]
  /\ t_pc' = [t_pc EXCEPT ![k] = "get"]
  /\ UNCHANGED << t_agent, t_q, h_queues, rq >>
  /\ CtlUnchanged

(***************************************************************************)
(* A call of the projector on the feet pixel of a box.                     *)
(***************************************************************************)
\* dx, dy = image_to_agent_grid_offset(x_feet, y_feet, w, h, bbox_h)
Project(x_img, y_img, img_w, img_h) ==
  /\ p_args' = << x_img, y_img, img_w, img_h >>
  /\ p_ret' = image_to_agent_grid_offset(x_img, y_img, img_w, img_h)
  /\ UNCHANGED << clock, agent_queues, agent_state, started, workerVars, notifyVars,
                  processed, pending, agent_frames, connVars, monitorVars,
                  storeVars, httpVars, ctlVars, goneVars >>

(***************************************************************************)
(* Specifications.                                                         *)
(***************************************************************************)
\* one agent, one connection, every kind of picture, time passing
WorkerNext ==
  \/ Connect("c1", "A1")
  \/ Accepted("c1")
  \/ \E kind \in PictureKinds : Receive("c1", kind)
  \/ Put("c1")
  \/ GatherDone("c1")
  \/ WorkerLoad("A1")
  \/ WorkerGet("A1")
  \/ WorkerDetect("A1")
  \/ WorkerNotify("A1")
  \/ WorkerWrite("A1")
  \/ Tick

WorkerSpec == Init /\ [][WorkerNext]_vars

\* two connections, two agents, pictures and bytes that are no picture
InboxNext ==
  \/ Connect("c1", "A1")
  \/ \E a \in Agents : Connect("c2", a)
  \/ \E c \in Conns : Accepted(c)
  \/ \E c \in Conns, kind \in {"empty", Garbage} : Receive(c, kind)
  \/ \E c \in Conns : Put(c)
  \/ \E c \in Conns : GatherDone(c)
  \/ \E c \in Conns : Disconnect(c)
  \/ \E a \in Agents : WorkerLoad(a)
  \/ \E a \in Agents : WorkerGet(a)
  \/ \E a \in Agents : WorkerDetect(a)
  \/ \E a \in Agents : WorkerNotify(a)
  \/ \E a \in Agents : WorkerWrite(a)

InboxSpec == Init /\ [][InboxNext]_vars

\* two agents' connections and the monitors
BroadcastNext ==
  \/ Connect("c1", "A1")
  \/ Connect("c2", "A2")
  \/ \E c \in Conns : Accepted(c)
  \/ \E c \in Conns : ReceiveSame(c, "empty")
  \/ \E c \in Conns : Put(c)
  \/ \E c \in Conns : GatherDone(c)
  \/ \E c \in Conns : Disconnect(c)
  \/ \E m \in Monitors : MonitorConnect(m)
  \/ \E m \in Monitors : MonitorAccepted(m)
  \/ \E m \in Monitors : MonitorInitSend(m)
  \/ \E m \in Monitors : MonitorGone(m)

BroadcastSpec == Init /\ [][BroadcastNext]_vars

\* one agent's connection, messages that decode and messages that do not, the
\* agent's thread and a monitor
IngestNext ==
  \/ Connect("c1", "A1")
  \/ Accepted("c1")
  \/ \E kind \in {"empty"} \cup Undecodable : Receive("c1", kind)
  \/ Put("c1")
  \/ GatherDone("c1")
  \/ Disconnect("c1")
  \/ WorkerLoad("A1")
  \/ WorkerGet("A1")
  \/ WorkerDetect("A1")
  \/ WorkerNotify("A1")
  \/ WorkerWrite("A1")
  \/ MonitorConnect("m1")
  \/ MonitorAccepted("m1")
  \/ MonitorInitSend("m1")
  \/ MonitorGone("m1")

IngestSpec == Init /\ [][IngestNext]_vars

\* one agent's connection and the monitors, over the long run: time passes by
\* the monitors' sleep.  What a handler has begun it finishes, and time goes
\* on; whether agents send and monitors come or go is up to them.
MonitorMaxTime == StartTime + Horizon * MonitorSleep

MonitorNext ==
  \/ Connect("c1", "A1")
  \/ Accepted("c1")
  \/ ReceiveSame("c1", "empty")
  \/ Put("c1")
  \/ GatherDone("c1")
  \/ \E m \in Monitors : MonitorConnect(m)
  \/ \E m \in Monitors : MonitorAccepted(m)
  \/ \E m \in Monitors : MonitorInitSend(m)
  \/ \E m \in Monitors : MonitorGone(m)
  \/ Elapse(MonitorSleep, MonitorMaxTime)

MonitorSpec ==
  /\ Init
  /\ [][MonitorNext]_vars
  /\ WF_vars(Accepted("c1"))
  /\ WF_vars(Put("c1"))
  /\ WF_vars(GatherDone("c1"))
  /\ WF_vars(\E m \in Monitors : MonitorAccepted(m))
  /\ WF_vars(\E m \in Monitors : MonitorInitSend(m))
  /\ WF_vars(Elapse(MonitorSleep, MonitorMaxTime))

\* one agent's connection and monitors that may stop reading.  What a handler
\* has begun it finishes if it can; whether agents send and monitors come, go
\* or stall is up to them.
HangNext ==
  \/ Connect("c1", "A1")
  \/ Accepted("c1")
  \/ ReceiveSame("c1", "empty")
  \/ Put("c1")
  \/ GatherDone("c1")
  \/ \E m \in Monitors : MonitorConnect(m)
  \/ \E m \in Monitors : MonitorAccepted(m)
  \/ \E m \in Monitors : MonitorInitSend(m)
  \/ \E m \in Monitors : MonitorGone(m)
  \/ \E m \in Monitors : MonitorStall(m)

HangSpec ==
  /\ Init
  /\ [][HangNext]_vars
  /\ WF_vars(Accepted("c1"))
  /\ WF_vars(Put("c1"))
  /\ WF_vars(GatherDone("c1"))
  /\ WF_vars(\E m \in Monitors : MonitorAccepted(m))
  /\ WF_vars(\E m \in Monitors : MonitorInitSend(m))

\* the frame store: two agents' messages, the readers, and time passing by
\* the liveness window or a tick less
StoreData == { [id |-> 1, kind |-> "empty"], [id |-> 2, kind |-> Garbage] }
StoreMaxTime == StartTime + Horizon * LivenessWindow

StoreNext ==
  \/ \E a \in Agents, data \in StoreData : StoreReceive(a, data)
  \/ GetAgents
  \/ \E a \in Agents : GetFrame(a)
  \/ \E d \in {LivenessWindow - 1, LivenessWindow} : Elapse(d, StoreMaxTime)

StoreSpec == Init /\ [][StoreNext]_vars

\* one agent's handler of the HTTP variant and two clients of the store
FanoutTasks == {"u1"} \cup MonitorTasks

FanoutNext ==
  \/ \E t \in FanoutTasks : HAccept(t)
  \/ \E t \in FanoutTasks : HAccepted(t)
  \/ \E t \in FanoutTasks : HEnter(t)
  \/ \E data \in StoreData : HReceive("u1", data)
  \/ HSetFrame("u1")
  \/ HGetClients("u1")
  \/ HSend("u1")
  \/ \E t \in MonitorTasks : HRegister(t)
  \/ \E t \in MonitorTasks : HGone(t)

FanoutSpec == Init /\ [][FanoutNext]_vars

\* the controller of the HTTP variant: two POST threads and a websocket of
\* one agent, and the threads they start
CtlNext ==
  \/ \E r \in PostRequests : PostArrives(r, "A1")
  \/ \E r \in Requests : Check(r)
  \/ \E r \in Requests : Start(r)
  \/ \E r \in PostRequests : Fetch(r)
  \/ \E r \in PostRequests : QPut(r)
  \/ \E r \in WsRequests : WsConnect(r, "A1")
  \/ \E r \in WsRequests : WsMessage(r)
  \/ \E r \in WsRequests : WsClose(r)
  \/ \E k \in 1..MaxThreads : TLoad(k)
  \/ \E k \in 1..MaxThreads : TGet(k)
  \/ \E k \in 1..MaxThreads : TWrite(k)

CtlSpec == Init /\ [][CtlNext]_vars

\* two agents' connections and one monitor that subscribes
SubscribeNext ==
  \/ Connect("c1", "A1")
  \/ Connect("c2", "A2")
  \/ \E c \in Conns : Accepted(c)
  \/ \E c \in Conns : ReceiveSame(c, "empty")
  \/ \E c \in Conns : Put(c)
  \/ \E c \in Conns : GatherDone(c)
  \/ \E c \in Conns : Disconnect(c)
  \/ MonitorConnect("m1")
  \/ MonitorAccepted("m1")
  \/ MonitorInitSend("m1")
  \/ MonitorGone("m1")

SubscribeSpec == Init /\ [][SubscribeNext]_vars

\* one agent's frames from the socket to the record, every step of the
\* handler and of the thread taken when it stays possible: the event loop
\* resumes a ready handler and the operating system schedules the thread
ProcessNext ==
  \/ Connect("c1", "A1")
  \/ Accepted("c1")
  \/ \E kind \in {"empty", "near", "bad"} : Receive("c1", kind)
  \/ Put("c1")
  \/ GatherDone("c1")
  \/ WorkerLoad("A1")
  \/ WorkerGet("A1")
  \/ WorkerDetect("A1")
  \/ WorkerNotify("A1")
  \/ WorkerWrite("A1")

ProcessSpec ==
  /\ Init
  /\ [][ProcessNext]_vars
  /\ WF_vars(Accepted("c1"))
  /\ WF_vars(Put("c1"))
  /\ WF_vars(GatherDone("c1"))
  /\ WF_vars(WorkerLoad("A1"))
  /\ WF_vars(WorkerGet("A1"))
  /\ WF_vars(WorkerDetect("A1"))
  /\ WF_vars(WorkerNotify("A1"))
  /\ WF_vars(WorkerWrite("A1"))

\* the projector on feet pixels of two frame shapes, h, w = frame.shape[:2]:
\* the camera's 480 x 640, and 940 x 940 where the ray through row 299 has
\* no vertical component
ProjShapes == { << IMG_H, IMG_W >>, << COS_ROT, COS_ROT >> }
ProjXs(img_w) == { (i * img_w) \div 4 : i \in 0..4 }
ProjYs(img_h) == { (i * img_h) \div 10 : i \in 0..10 } \cup { (COS_ROT - SIN_ROT) \div 2 }

ProjNext ==
  \E shape \in ProjShapes : \E x \in ProjXs(shape[2]), y \in ProjYs(shape[1]) :
    Project(x, y, shape[2], shape[1])

ProjSpec == Init /\ [][ProjNext]_vars

\* the handlers of the HTTP variant and a reader, contending for the lock
LockNext ==
  \/ \E t \in AgentTasks \cup MonitorTasks : HAccept(t)
  \/ \E t \in AgentTasks \cup MonitorTasks : HAccepted(t)
  \/ \E t \in HttpTasks : HEnter(t)
  \/ \E t \in AgentTasks, data \in StoreData : HReceive(t, data)
  \/ \E t \in AgentTasks : HClose(t)
  \/ \E t \in AgentTasks : HSetFrame(t)
  \/ \E t \in AgentTasks : HGetClients(t)
  \/ \E t \in AgentTasks : HSend(t)
  \/ \E t \in MonitorTasks : HRegister(t)
  \/ \E t \in MonitorTasks : HCancel(t)
  \/ \E t \in MonitorTasks : HUnregister(t)
  \/ \E t \in ReaderTasks : HRead(t)
  \/ \E t \in ReaderTasks : HGetAgents(t)

LockSpec == Init /\ [][LockNext]_vars

(***************************************************************************)
(* Claims about the agent's thread, under WorkerSpec.                      *)
(***************************************************************************)
InBand(offset) == Len(offset) = 2 /\ offset[2] > 0 /\ offset[2] <= MaxDy
InLoop(a) == wpc[a] \in {"get", "detect", "notify", "write"}

\* C1: the notifier is called for a frame only if the frame's blocked_offsets
\* is non-empty and (it differs from the last sent set or at least 0.5 s lie
\* between the last send time and the frame's start); never for an empty set.
C1_NotifyOnlyWhenDue ==
  [][\A a \in Agents :
       calls'[a] # calls[a] =>
         /\ calls'[a].offsets = w_blocked[a]
         /\ w_blocked[a] # {}
         /\ \/ w_blocked[a] # last_sent_offsets[a]
            \/ w_now[a] - last_send_time[a] >= MinInterval]_vars

\* a non-empty frame that came after a notified one and was not notified
C1_Witness ==
  /\ wpc["A1"] = "write"
  /\ w_blocked["A1"] # {}
  /\ calls["A1"].frame # 0
  /\ calls["A1"].frame # w_frame["A1"].id

\* C2: among consecutive frames of one and the same non-empty blocked_offsets,
\* any two calls of the notifier belong to frames that started at least 0.5 s
\* apart.
C2_Debounce ==
  \A a \in Agents :
    \A i, j \in DOMAIN run_sends[a] :
      i < j => run_sends[a][j] - run_sends[a][i] >= MinInterval

\* two notifications within one run of equal frames
C2_Witness == Len(run_sends["A1"]) >= 2

\* C3 (as claimed): every element of blocked_offsets, as stored in agent_state
\* and as passed to the notifier, is a pair (dx, dy) with 0 < dy <= 5.
C3_OffsetsInBand ==
  \A a \in DOMAIN agent_state :
    \A o \in agent_state[a].blocked_offsets \cup calls[a].offsets : InBand(o)

\* C4 (as claimed): after a frame processed without error the status is
\* 'blocked' exactly if a person detection of the frame has 0 < dy <= 5.
C4_BlockedIffInBand ==
  \A a \in DOMAIN agent_state :
    agent_state[a].status \in {"safe", "blocked"} =>
      (agent_state[a].status = "blocked"
         <=> \E i \in DOMAIN agent_state[a].detections :
               InBand(agent_state[a].detections[i].offset))

\* C10: a frame whose processing raises leaves an error record with the
\* message, the thread stays in its loop, and the frame processed next is
\* written as safe or blocked over the error.
C10_ErrorIsPerFrame ==
  [][\A a \in Agents :
       /\ (wpc[a] = "detect" /\ wpc'[a] \notin {"detect", "notify"}) =>
            /\ agent_state'[a].status = "error"
            /\ agent_state'[a].error # ""
            /\ wpc'[a] = "get"
       /\ (wpc[a] = "write" /\ wpc'[a] # "write") =>
            /\ agent_state'[a].status \in {"safe", "blocked"}
            /\ agent_state'[a].error = ""
            /\ wpc'[a] = "get"
       /\ InLoop(a) => InLoop(a)']_vars

\* a frame that failed, and the next frame processed over it
C10_Witness ==
  /\ Len(processed["A1"]) = 2
  /\ processed["A1"][1].status = "error"
  /\ processed["A1"][2].status \in {"safe", "blocked"}
  /\ agent_state["A1"].status = processed["A1"][2].status

\* C11 (as claimed): a thread that was started never exits: whatever fails
\* (the load of the model, a frame, the debug image, the notifier), it is
\* loading, waiting on its inbox or processing a frame.
C11_WorkerNeverExits ==
  \A a \in Agents : started[a] > 0 => wpc[a] \in {"load", "get", "detect", "notify", "write"}

\* C16: a call of the notifier that fails leaves agent_state as it is and the
\* thread on its way to the write; the record of that frame is then written
\* with the computed status, detections and blocked_offsets, never as an
\* error, and the thread goes back to its inbox.
C16_NotifierFailureNonFatal ==
  [][\A a \in Agents :
       /\ (calls'[a] # calls[a] /\ ~calls'[a].ok) =>
            /\ agent_state'[a] = agent_state[a]
            /\ wpc'[a] = "write"
       /\ (wpc[a] = "write" /\ wpc'[a] # "write"
             /\ calls[a].frame = w_frame[a].id /\ ~calls[a].ok) =>
            /\ agent_state'[a].status = "blocked"
            /\ agent_state'[a].error = ""
            /\ agent_state'[a].blocked_offsets = calls[a].offsets
            /\ agent_state'[a].detections = Detections(w_frame[a])
            /\ wpc'[a] = "get"]_vars

\* the frame whose notification failed has been written as blocked
C16_Witness ==
  /\ wpc["A1"] = "get"
  /\ calls["A1"].frame # 0 /\ ~calls["A1"].ok
  /\ processed["A1"] # << >>
  /\ processed["A1"][Len(processed["A1"])].id = calls["A1"].frame
  /\ agent_state["A1"].status = "blocked"
  /\ agent_state["A1"].blocked_offsets = calls["A1"].offsets

C18_RecordBeforeNotify ==
  [][\A a \in Agents :
       calls'[a] # calls[a] =>
         /\ agent_state[a].status = "blocked"
         /\ agent_state[a].blocked_offsets = calls'[a].offsets]_vars

(***************************************************************************)
(* Claims about the inbox and the start of the threads, under InboxSpec.   *)
(***************************************************************************)
\* C5: an agent's inbox never holds more than one frame.
C5_InboxAtMostOne ==
  \A a \in DOMAIN agent_queues : Len(agent_queues[a]) <= 1

\* two connections of one agent, a frame in the inbox, a picture of the other
\* connection turned away, the agent's thread in its loop
C5_Witness ==
  /\ c_agent["c1"] = "A1" /\ c_agent["c2"] = "A1"
  /\ cpc["c1"] # "closed"
  /\ cpc["c2"] = "gather" /\ delivery["c2"] = "dropped"
  /\ c_data["c2"].kind # Garbage
  /\ Len(agent_queues["A1"]) = 1
  /\ InLoop("A1")

C7_PutNeverRaises ==
  /\ [](\A c \in Conns : delivery[c] # "queue.Full")
  /\ [][\A c \in Conns :
          /\ (cpc[c] = "recv" /\ cpc'[c] = "gather") =>
               /\ agent_queues' = agent_queues
               /\ delivery'[c] = "dropped"
          /\ (cpc[c] = "put" /\ cpc'[c] # "put") =>
               /\ cpc'[c] = "gather"
               /\ delivery'[c] = "put"
               /\ agent_queues'[c_agent[c]] = << Decode(c_data[c]) >>]_vars

\* one connection has put its picture, the other one of the same agent had
\* its picture dropped
C7_Witness ==
  /\ c_agent["c1"] = "A1" /\ c_agent["c2"] = "A1"
  /\ cpc["c1"] = "gather" /\ delivery["c1"] = "put"
  /\ cpc["c2"] = "gather" /\ delivery["c2"] = "dropped"
  /\ c_data["c2"].kind # Garbage

\* C8: at most one thread is ever started per agent id, and a connection for
\* an agent that has a thread replaces neither its inbox nor its record.
C8_StartOnce ==
  /\ [](\A a \in Agents : started[a] <= 1)
  /\ [][\A c \in Conns :
          (cpc[c] = "accept" /\ cpc'[c] = "recv"
             /\ c_agent[c] \in DOMAIN agent_queues) =>
            /\ agent_queues' = agent_queues
            /\ agent_state' = agent_state
            /\ started' = started
            /\ wpc' = wpc]_vars

\* a second connection of an agent whose record is past 'waiting' and whose
\* inbox holds a frame
C8_Witness ==
  /\ started["A1"] = 1
  /\ c_agent["c1"] = "A1" /\ c_agent["c2"] = "A1"
  /\ cpc["c1"] = "recv" /\ cpc["c2"] = "recv"
  /\ agent_state["A1"].status = "safe"
  /\ agent_queues["A1"] # << >>

C13_LatestOnlyDecoded ==
  [][\A c \in Conns :
       (cpc[c] = "recv" /\ cpc'[c] \notin {"recv", "closed"}
          /\ c_data'[c].kind \in Undecodable) =>
         /\ agent_frames' = agent_frames
         /\ c_targets'[c] = << >>]_vars

(***************************************************************************)
(* Claims about the frame store, under StoreSpec.                          *)
(***************************************************************************)
\* C15: get_agents lists an agent exactly if it was last seen less than 10 s
\* ago; no operation deletes an entry of frames or of agent_last_seen, and
\* get_frame returns the agent's stored frame however long ago it was seen.
C15_ListedIffRecent ==
  /\ [](listing.done =>
          \A a \in Agents :
            a \in listing.agents <=>
              (a \in DOMAIN agent_last_seen
                 /\ clock - agent_last_seen[a] < LivenessWindow))
  /\ [](DOMAIN frames = DOMAIN agent_last_seen)
  /\ [](fetched.agent \in DOMAIN frames => fetched.data = frames[fetched.agent])
  /\ [][/\ DOMAIN frames \subseteq DOMAIN frames'
        /\ (clock' # clock) =>
             (frames' = frames /\ agent_last_seen' = agent_last_seen)
        /\ (listing'.done \/ fetched'.agent # "") =>
             (frames' = frames /\ agent_last_seen' = agent_last_seen)]_vars

\* an agent last seen exactly 10 s ago is left out of the listing while
\* get_frame still returns the frame it sent; the other agent is listed
C15_Witness ==
  /\ listing.done
  /\ "A1" \in DOMAIN agent_last_seen
  /\ clock - agent_last_seen["A1"] = LivenessWindow
  /\ "A1" \notin listing.agents
  /\ "A2" \in listing.agents
  /\ fetched.agent = "A1"
  /\ fetched.data = [id |-> 1, kind |-> "empty"]

(***************************************************************************)
(* Claims about the broadcast, under BroadcastSpec.                        *)
(***************************************************************************)
\* the next turn of the monitor's loop over agent_frames.items() raises
\* RuntimeError (dictionary changed size during iteration) and ends monitor_ws
WillRaise(m) ==
  mpc[m] = "init" /\ Cardinality(DOMAIN agent_frames) # m_iter[m].size

\* C14 (as claimed): the end of an agent's connection removes the agent's
\* entry of agent_frames and changes nothing else: agent_state, agent_queues
\* and the threads are as before, no other agent's connection and no
\* monitor's connection is ended or set to end by it.
C14_DisconnectOnlyDropsFrame ==
  [][\A c \in Conns :
       (cpc[c] # "closed" /\ cpc'[c] = "closed") =>
         /\ agent_frames' = Without(agent_frames, c_agent[c])
         /\ agent_state' = agent_state
         /\ agent_queues' = agent_queues
         /\ wpc' = wpc
         /\ \A d \in Conns \ {c} : cpc'[d] = cpc[d]
         /\ monitor_clients' = monitor_clients
         /\ mpc' = mpc
         /\ \A m \in Monitors : WillRaise(m)' => WillRaise(m)]_vars

\* C9 (as claimed): a broadcast removes from monitor_clients exactly the
\* subscribers whose send raised; those whose send succeeded stay.
C9_ExactlyFailingRemoved ==
  [][\A c \in Conns :
       (cpc[c] = "gather" /\ cpc'[c] = "recv") =>
         LET failed == { c_targets[c][i] :
                           i \in { j \in DOMAIN c_results[c] : c_results[c][j] = "exc" } }
             removed == Range(monitor_clients) \ Range(monitor_clients')
         IN removed = failed \cap Range(monitor_clients)]_vars

(***************************************************************************)
(* Claims about idle monitors, under MonitorSpec.                          *)
(***************************************************************************)
\* C19 (as claimed): a monitor is in monitor_clients once its handler has
\* accepted it, and a monitor whose peer has gone is eventually removed from
\* monitor_clients, whether an agent's frame is broadcast afterwards or not.
C19_GoneMonitorRemoved ==
  /\ [][\A m \in Monitors :
          (mpc[m] = "accept" /\ mpc'[m] # "accept") =>
            m \in Range(monitor_clients')]_vars
  /\ \A m \in Monitors :
       (m \in Range(monitor_clients) /\ ~m_alive[m])
         ~> (m \notin Range(monitor_clients))

\* C20 (as claimed): a subscribed monitor whose handler sleeps is sent a
\* message by its handler at least once in every heartbeat interval in which
\* no agent's frame is broadcast.
C20_HeartbeatWhenIdle ==
  \A m \in Monitors :
    (mpc[m] = "idle" /\ m_alive[m] /\ m \in Range(monitor_clients)) =>
      \/ clock - m_sent_at[m] <= HEARTBEAT_INTERVAL
      \/ \E c \in Conns : clock - c_last_sent[c] <= HEARTBEAT_INTERVAL

(***************************************************************************)
(* Claims about monitors that stop reading, under HangSpec.                *)
(***************************************************************************)
\* C21 (as claimed): a send to a monitor that never returns keeps nobody
\* else waiting: the agent's handler, waiting for the sends of a broadcast,
\* always gets back to receiving the agent's next frame, which the other
\* monitors are then sent.
C21_HangBlocksNobody ==
  \A c \in Conns : (cpc[c] = "gather") ~> (cpc[c] = "recv")

(***************************************************************************)
(* Claims about the store's lock, under LockSpec.                          *)
(***************************************************************************)
\* C22: no task holds the store's lock while it is inside accept,
\* receive_bytes, send_bytes or sleep; the lock is held only inside a method
\* of the store, so whenever a task is inside a network call every other
\* task that is ready to enter a method of the store can enter it or is kept
\* out by a task inside a method, never by one inside a network call.
C22_NoLockAcrossNetwork ==
  /\ \A t \in HttpTasks : hpc[t].st = "net" => lock # t
  /\ lock # "free" => (lock \in HttpTasks /\ hpc[lock].st = "in")
  /\ \A t \in HttpTasks :
       hpc[t].st = "ready" => (ENABLED HEnter(t) \/ lock # "free")

\* an agent's handler is inside a send to a client while a monitor's handler
\* is inside register_client and the other agent's handler is ready for
\* set_frame
C22_Witness ==
  /\ hpc["u1"] = Pos("net", "send_bytes")
  /\ hpc["v2"] = Pos("in", "register_client")
  /\ lock = "v2"
  /\ hpc["u2"] = Pos("ready", "set_frame")

(***************************************************************************)
(* Claims about the projector, under ProjSpec.                             *)
(***************************************************************************)
\* C23 (as claimed): when the rotated ray has no vertical component
\* (y_rot = 0), image_to_agent_grid_offset returns the offset (0, 0).
C23_DegenerateIsOrigin ==
  (p_args # << >> /\ YRotNum(p_args[2], p_args[4]) = 0) => p_ret = << 0, 0 >>

(***************************************************************************)
(* Claims about the agents' threads side by side, under InboxSpec.         *)
(***************************************************************************)
\* C24: once an agent's record exists, it changes only in a step of that
\* agent's one thread; a step of the thread of agent a leaves the record,
\* the inbox and the debounce state of every other agent as they are.
C24_SingleWriter ==
  [][\A a \in Agents :
       /\ (a \in DOMAIN agent_state /\ agent_state'[a] # agent_state[a]) =>
            (wpc'[a] # wpc[a] /\ wpc[a] # "none" /\ started[a] = 1)
       /\ (wpc[a] # "none" /\ wpc'[a] # wpc[a]) =>
            \A b \in Agents \ {a} :
              /\ b \in DOMAIN agent_state => agent_state'[b] = agent_state[b]
              /\ b \in DOMAIN agent_queues => agent_queues'[b] = agent_queues[b]
              /\ last_send_time'[b] = last_send_time[b]
              /\ last_sent_offsets'[b] = last_sent_offsets[b]
              /\ calls'[b] = calls[b]]_vars

\* the last frame of A1 failed while the record of A2 says safe
C24_Witness ==
  /\ "A1" \in DOMAIN agent_state /\ "A2" \in DOMAIN agent_state
  /\ processed["A1"] # << >>
  /\ processed["A1"][Len(processed["A1"])].status = "error"
  /\ agent_state["A1"].status = "error"
  /\ processed["A2"] # << >>
  /\ agent_state["A2"].status = "safe"

(***************************************************************************)
(* Claims about the debounce state and the record, under WorkerSpec.       *)
(***************************************************************************)
\* C25: at the notification step of a frame whose blocked_offsets is
\* non-empty and whose debounce condition holds, the notifier is called and
\* last_send_time / last_sent_offsets become the frame's start time and set,
\* whether the send succeeds or not; at the notification step of any other
\* frame, and at every other step of a started thread (a frame that raised
\* included), the notifier is not called and both are left as they are.
C25_BookkeepingFollowsCall ==
  [][\A a \in Agents :
       /\ (wpc[a] = "notify" /\ wpc'[a] = "write") =>
            IF /\ w_blocked[a] # {}
               /\ \/ w_now[a] - last_send_time[a] >= MinInterval
                  \/ w_blocked[a] # last_sent_offsets[a]
            THEN /\ calls'[a].frame = w_frame[a].id
                 /\ calls'[a].offsets = w_blocked[a]
                 /\ last_send_time'[a] = w_now[a]
                 /\ last_sent_offsets'[a] = w_blocked[a]
            ELSE /\ calls'[a] = calls[a]
                 /\ last_send_time'[a] = last_send_time[a]
                 /\ last_sent_offsets'[a] = last_sent_offsets[a]
       /\ (wpc[a] # "none" /\ ~(wpc[a] = "notify" /\ wpc'[a] = "write")) =>
            /\ calls'[a] = calls[a]
            /\ last_send_time'[a] = last_send_time[a]
            /\ last_sent_offsets'[a] = last_sent_offsets[a]]_vars

\* the notifier was called for the frame in hand and failed, and the debounce
\* state is the frame's; before it, a frame had raised
C25_Witness ==
  /\ wpc["A1"] = "write"
  /\ calls["A1"].frame = w_frame["A1"].id
  /\ ~calls["A1"].ok
  /\ w_blocked["A1"] # {}
  /\ last_send_time["A1"] = w_now["A1"]
  /\ last_sent_offsets["A1"] = w_blocked["A1"]
  /\ processed["A1"] # << >>
  /\ processed["A1"][Len(processed["A1"])].status = "error"

\* C26: the record written for a processed frame is the record of that frame
\* alone (status, detections, road_outline and blocked_offsets of the frame,
\* nothing of the record before), and every agent's record has exactly one
\* of the statuses waiting, safe, blocked, error.
C26_RecordOfFrameAlone ==
  [][/\ \A a \in Agents :
          (wpc[a] = "write" /\ wpc'[a] # "write") =>
            agent_state'[a] = ProcessedRecord(Detections(w_frame[a]),
                                              RoadOutline(w_frame[a].kind),
                                              BlockedOffsets(w_frame[a]))
     /\ \A a \in DOMAIN agent_state' :
          agent_state'[a].status \in {"waiting", "safe", "blocked", "error"}]_vars

\* a blocked frame, then a frame without persons: its record is safe and
\* holds no offset and no detection of the frame before
C26_Witness ==
  /\ Len(processed["A1"]) = 2
  /\ processed["A1"][1].status = "blocked"
  /\ processed["A1"][2].status = "safe"
  /\ agent_state["A1"].status = "safe"
  /\ agent_state["A1"].blocked_offsets = {}
  /\ agent_state["A1"].detections = << >>

(***************************************************************************)
(* Claims about the way of a frame to the record, under ProcessSpec.       *)
(***************************************************************************)
\* C27 (as claimed): every frame the inbox accepted is eventually taken by
\* the agent's thread and written to the record as safe, blocked or error.
C27_AcceptedIsProcessed ==
  \A i \in 1..MaxFrames :
    (\E a \in DOMAIN agent_queues :
       \E k \in DOMAIN agent_queues[a] : agent_queues[a][k].id = i)
    ~> (\E a \in Agents : \E k \in DOMAIN processed[a] : processed[a][k].id = i)

(***************************************************************************)
(* Claims about the debug image, under WorkerSpec.                         *)
(***************************************************************************)
\* C28 (as claimed): a failure of the write of the debug image is not passed
\* on: a frame whose detection succeeded goes on to the notification with
\* the record untouched, and is then written with its own status.
C28_SnapshotFailureSwallowed ==
  [][\A a \in Agents :
       (wpc[a] = "detect" /\ w_frame[a].kind # "bad" /\ wpc'[a] # "detect") =>
         /\ wpc'[a] = "notify"
         /\ agent_state'[a] = agent_state[a]]_vars

C30_SubscribedThroughInit ==
  [][\A m \in Monitors :
       mpc[m] = "init" =>
         /\ mpc'[m] # "closed"
         /\ m \in Range(monitor_clients')]_vars

(***************************************************************************)
(* Claims about the threaded controller, under CtlSpec.                    *)
(***************************************************************************)
\* C31 (as claimed): in the threaded controller at most one AgentYoloThread
\* is ever made per agent id, and an agent's inbox is never replaced nor its
\* record set back to 'waiting' once they exist.
C31_StartOnceThreaded ==
  [][\A a \in Agents :
       /\ Cardinality({ k \in DOMAIN t_agent' : t_agent'[k] = a }) <= 1
       /\ a \in DOMAIN h_queues =>
            /\ h_queues'[a] = h_queues[a]
            /\ h_state'[a] = "waiting" => h_state[a] = "waiting"]_vars

\* C32 (as claimed): no request thread is ever held inside the put of the
\* inbox: a request that has reached q.put(frame) finds room in the queue.
C32_PutNeverWaits ==
  \A r \in Requests : rq[r].pc = "put" => ~Full(t_q[rq[r].q])

(***************************************************************************)
(* Claims about the broadcast of the HTTP variant, under FanoutSpec.       *)
(***************************************************************************)
\* C33 (as claimed): when a send of ws_unity_agent to a client fails, the
\* client is no longer in the store's client set afterwards.
C33_FailedSubscriberDropped ==
  \A v \in h_failed : v \notin store_clients

(***************************************************************************)
(* Claims about what Unity is told, under WorkerSpec.                      *)
(***************************************************************************)
\* C34: the notifier is only ever called with a non-empty blocked_offsets,
\* so what Unity last received for an agent changes only at a frame whose
\* set is non-empty, to that set; a frame with an empty set is written as
\* 'safe' and leaves what Unity last received as it is.
C34_NoClearMessage ==
  [][\A a \in Agents :
       /\ calls'[a] # calls[a] => calls'[a].offsets # {}
       /\ unity_recv'[a] # unity_recv[a] =>
            /\ w_blocked[a] # {}
            /\ unity_recv'[a] = w_blocked[a]
       /\ (wpc[a] = "write" /\ wpc'[a] # "write" /\ w_blocked[a] = {}) =>
            /\ agent_state'[a].status = "safe"
            /\ unity_recv'[a] = unity_recv[a]]_vars

\* Unity was told of a blocked frame; the frame after it had no person and
\* the record says safe, while Unity's last set is still the blocked one
C34_Witness ==
  /\ Len(processed["A1"]) = 2
  /\ processed["A1"][1].status = "blocked"
  /\ processed["A1"][2].status = "safe"
  /\ agent_state["A1"].status = "safe"
  /\ unity_recv["A1"] # {}
  /\ calls["A1"].ok
  /\ calls["A1"].frame = processed["A1"][1].id

====
